---------------------------- MODULE Spec2Model ----------------------------
(***************************************************************************)
(* Model of .github/scripts/python/agent_runner.py: the command-line entry *)
(* point main(), the run_agent() lifecycle and the loaders it calls.       *)
(*                                                                         *)
(* Python strings are sequences of one-character strings, so that split,   *)
(* strip, join, replace and the substring test are computed as Python      *)
(* computes them.  An optional value (os.getenv's result) is <<>> when the *)
(* variable is unset and <<s>> when it is set to the string s.             *)
(***************************************************************************)
EXTENDS Naturals, Sequences, FiniteSets

VARIABLES
    pc,               \* position of the process in main() / run_agent()
    inputs,           \* what the statement just executed read from outside
    prompt,           \* main's / run_agent's local `prompt`
    tools,            \* run_agent's local `tools`
    has_mcp_servers,  \* run_agent's local `has_mcp_servers`
    mcp_constructed,  \* number of MCPClient objects constructed so far
    session_id,       \* run_agent's local `session_id`
    session_manager,  \* run_agent's local `session_manager`
    agent,            \* run_agent's local `agent`
    kb_id,            \* run_agent's local `kb_id`
    result,           \* run_agent's local `result`
    summary,          \* sections appended to the GITHUB_STEP_SUMMARY file
    stdout,           \* diagnostic lines printed so far (as a set of tags)
    trace,            \* calls made so far, in order
    raised,           \* the step whose exception reached run_agent's handler
    exits,            \* exit calls made so far, in order
    arg,              \* argument of the loader under test (loader specifications)
    ret               \* what the loader under test returned or raised

vars == <<pc, inputs, prompt, tools, has_mcp_servers, mcp_constructed, session_id,
          session_manager, agent, kb_id, result, summary, stdout, trace, raised,
          exits, arg, ret>>

\* ------------------------------------------------------------------ bounds

MaxLen == 5        \* longest tool-config string explored
MaxUrlLen == 4     \* longest MCP url explored
MaxRepoLen == 3    \* longest GITHUB_REPOSITORY explored
MaxArgs == 2       \* most CLI prompt arguments explored
MaxPromptLen == 2  \* longest STRANDS_PROMPT explored
MaxMissing == 2    \* most attributes missing from github_tools

\* ----------------------------------------------------------- Python strings

None == <<>>
Some(s) == <<s>>
Getenv(v, default) == IF v = None THEN default ELSE v[1]
\* Python truthiness of an os.getenv result: unset and "" are both false.
Truthy(v) == v # None /\ v[1] # <<>>

IsSpace(c) == c \in {" ", "\t", "\n"}

RECURSIVE LStrip(_)
LStrip(s) == IF s # <<>> /\ IsSpace(Head(s)) THEN LStrip(Tail(s)) ELSE s

RECURSIVE RStrip(_)
RStrip(s) ==
    IF s # <<>> /\ IsSpace(s[Len(s)]) THEN RStrip(SubSeq(s, 1, Len(s) - 1)) ELSE s

Strip(s) == RStrip(LStrip(s))

\* Index of the first occurrence of the character c in s, 0 when there is none.
FirstIdx(s, c) ==
    IF \E i \in 1..Len(s) : s[i] = c
    THEN CHOOSE i \in 1..Len(s) : s[i] = c /\ \A j \in 1..(i - 1) : s[j] # c
    ELSE 0

RECURSIVE Split(_, _)
Split(s, c) ==
    LET i == FirstIdx(s, c)
    IN  IF i = 0 THEN <<s>>
        ELSE <<SubSeq(s, 1, i - 1)>> \o Split(SubSeq(s, i + 1, Len(s)), c)

\* str.split(c, 1)
SplitOnce(s, c) ==
    LET i == FirstIdx(s, c)
    IN  IF i = 0 THEN <<s>> ELSE <<SubSeq(s, 1, i - 1), SubSeq(s, i + 1, Len(s))>>

RECURSIVE Join(_, _)
Join(parts, sep) ==
    IF parts = <<>> THEN <<>>
    ELSE IF Len(parts) = 1 THEN parts[1]
    ELSE parts[1] \o sep \o Join(Tail(parts), sep)

\* str.replace for a one-character pattern
Replace(s, c, d) == [i \in 1..Len(s) |-> IF s[i] = c THEN d ELSE s[i]]

\* `sub in s`
Contains(s, sub) ==
    \E i \in 1..(Len(s) - Len(sub) + 1) : SubSeq(s, i, i + Len(sub) - 1) = sub

\* All strings over the alphabet A of length at most n.
RECURSIVE StringsUpTo(_, _)
StringsUpTo(A, n) ==
    IF n = 0 THEN {<<>>}
    ELSE LET shorter == StringsUpTo(A, n - 1)
         IN  shorter \cup {Append(s, c) : s \in shorter, c \in A}

\* ------------------------------------------------- the installed packages

strands_tools == <<"s","t","r","a","n","d","s","_","t","o","o","l","s">>
strands_action == <<"s","t","r","a","n","d","s","_","a","c","t","i","o","n">>
shell == <<"s","h","e","l","l">>
retrieve == <<"r","e","t","r","i","e","v","e">>
use_agent == <<"u","s","e","_","a","g","e","n","t">>
use_github == <<"u","s","e","_","g","i","t","h","u","b">>
system_prompt == <<"s","y","s","t","e","m","_","p","r","o","m","p","t">>
store_in_kb == <<"s","t","o","r","e","_","i","n","_","k","b">>
create_subagent == <<"c","r","e","a","t","e","_","s","u","b","a","g","e","n","t">>

\* The packages the interpreter can import, and the attributes each one has:
\* two one-letter packages for the exhaustive runs, and the packages the
\* default tool configuration names.
Installed == {<<"a">>, <<"b">>, strands_tools, strands_action}

Attributes(package) ==
    CASE package = <<"a">> -> {<<"a">>, <<"b">>}
      [] package = <<"b">> -> {<<"b">>}
      [] package = strands_tools -> {shell, retrieve, use_agent}
      [] package = strands_action -> {use_github, system_prompt, store_in_kb}
      [] OTHER -> {}

\* ------------------------------------------------------------- load_tools

\* __import__(package, fromlist=[tool_name]) followed by getattr(module, tool_name):
\* the exception it raises, or "ok".  An empty module name is a ValueError.
Resolve(package, tool_name) ==
    IF package = <<>> THEN "ValueError"
    ELSE IF package \notin Installed THEN "ImportError"
    ELSE IF tool_name \notin Attributes(package) THEN "AttributeError"
    ELSE "ok"

\* The exceptions the loop body of load_tools catches.
ResolveCaught(e) == e \in {"ImportError", "AttributeError"}

\* tool_names = [t.strip() for t in tools_str.split(",") if t.strip()]
RECURSIVE StripNonEmpty(_)
StripNonEmpty(parts) ==
    IF parts = <<>> THEN <<>>
    ELSE (IF Strip(Head(parts)) # <<>> THEN <<Strip(Head(parts))>> ELSE <<>>)
         \o StripNonEmpty(Tail(parts))

\* The inner loop: for tool_name in tool_names.  The state of the function is
\* [exc, tools]: exc is "none" while it runs, else the exception that left it.
RECURSIVE LoadNames(_, _, _)
LoadNames(package, tool_names, acc) ==
    IF tool_names = <<>> THEN [exc |-> "none", tools |-> acc]
    ELSE LET e == Resolve(package, Head(tool_names))
         IN  IF e = "ok"
             THEN LoadNames(package, Tail(tool_names),
                            Append(acc, [module |-> package, attr |-> Head(tool_names)]))
             ELSE IF ResolveCaught(e)
             THEN LoadNames(package, Tail(tool_names), acc)
             ELSE [exc |-> e, tools |-> acc]

\* The outer loop: for group in groups.
RECURSIVE LoadGroups(_, _)
LoadGroups(groups, acc) ==
    IF groups = <<>> THEN [exc |-> "none", tools |-> acc]
    ELSE LET group == Strip(Head(groups))
             parts == SplitOnce(group, ":")
         IN  IF group = <<>> THEN LoadGroups(Tail(groups), acc)
             ELSE IF Len(parts) # 2 THEN LoadGroups(Tail(groups), acc)
             ELSE LET package == Strip(parts[1])
                      tool_names == StripNonEmpty(Split(Strip(parts[2]), ","))
                      r == LoadNames(package, tool_names, acc)
                  IN  IF r.exc # "none" THEN r ELSE LoadGroups(Tail(groups), r.tools)

load_tools(config) == LoadGroups(Split(config, ";"), <<>>)


\* ------------------------------------------------------ load_github_tools

\* The attributes load_github_tools reads from the github_tools module, in order.
GithubToolNames ==
    <<"create_issue", "update_issue", "add_issue_comment", "create_pull_request",
      "update_pull_request", "reply_to_review_comment", "get_issue", "list_issues",
      "get_issue_comments", "get_pull_request", "list_pull_requests",
      "get_pr_review_and_comments">>

\* Building the list literal: the attributes are read in order and the first
\* one the module lacks raises AttributeError.
RECURSIVE ReadAttributes(_, _, _)
ReadAttributes(names, missing, acc) ==
    IF names = <<>> THEN [exc |-> "none", tools |-> acc]
    ELSE IF Head(names) \in missing THEN [exc |-> "AttributeError", tools |-> <<>>]
    ELSE ReadAttributes(Tail(names), missing,
                        Append(acc, [bundle |-> "github_tools", tool |-> Head(names)]))

\* The exceptions load_github_tools catches.
GithubCaught(e) == e = "ImportError"

\* world.importable: `import github_tools` succeeds; world.missing: the
\* attributes the module lacks.
load_github_tools(world) ==
    LET r == IF world.importable
             THEN ReadAttributes(GithubToolNames, world.missing, <<>>)
             ELSE [exc |-> "ImportError", tools |-> <<>>]
    IN  IF r.exc # "none" /\ GithubCaught(r.exc)
        THEN [exc |-> "none", tools |-> <<>>]
        ELSE r

\* -------------------------------------------------- load_additional_tools

AdditionalToolNames == <<"handoff_to_user", "notebook", "str_replace_based_edit_tool">>

\* The exceptions each try block of load_additional_tools catches.
AdditionalCaught(e) == e = "ImportError"

\* world[name] is what `import name; tools.append(name.name)` does: "ok",
\* "ImportError" (no such module) or "AttributeError" (module without the tool).
RECURSIVE LoadAdditional(_, _, _)
LoadAdditional(names, world, acc) ==
    IF names = <<>> THEN [exc |-> "none", tools |-> acc]
    ELSE LET e == world[Head(names)]
         IN  IF e = "ok"
             THEN LoadAdditional(Tail(names), world,
                                 Append(acc, [bundle |-> "additional", tool |-> Head(names)]))
             ELSE IF AdditionalCaught(e)
             THEN LoadAdditional(Tail(names), world, acc)
             ELSE [exc |-> e, tools |-> acc]

load_additional_tools(world) == LoadAdditional(AdditionalToolNames, world, <<>>)

\* ------------------------------------------------------- load_mcp_servers

\* A server descriptor (one value of the "mcpServers" object):
\*   object    FALSE when the JSON value is not an object (cfg.get raises)
\*   disabled  "absent", "true" or "false"
\*   command   TRUE when the descriptor has a "command" key
\*   url       None, or Some(the "url" string)

\* The url test written as `"sse" in _url`.
TransportLooseMatch(client) ==
    IF client.kind = "command" THEN "stdio_client"
    ELSE IF Contains(client.url, <<"s", "s", "e">>) THEN "sse_client"
    ELSE "streamablehttp_client"

\* What the transport callable of a client returns when the SDK calls it.
Transport(client) ==
    IF client.kind = "command" THEN "stdio_client"
    ELSE IF Contains(client.url, <<"/", "s", "s", "e">>) THEN "sse_client"
    ELSE "streamablehttp_client"

\* cfg.get("disabled", False)
Disabled(cfg) == cfg.disabled = "true"

\* The body of the per-server try block: the client appended, or <<>> when the
\* server is skipped or its construction raised.
ServerClient(name, cfg) ==
    IF ~cfg.object THEN <<>>
    ELSE IF Disabled(cfg) THEN <<>>
    ELSE IF cfg.command
    THEN <<[prefix |-> name, kind |-> "command", url |-> <<>>]>>
    ELSE IF cfg.url # None
    THEN <<[prefix |-> name, kind |-> "url", url |-> cfg.url[1]]>>
    ELSE <<>>

RECURSIVE ServerClients(_)
ServerClients(servers) ==
    IF servers = <<>> THEN <<>>
    ELSE ServerClient(Head(servers).name, Head(servers).cfg) \o ServerClients(Tail(servers))

\* mcp_json.kind: "unset", "empty" (the empty string), "malformed" (json.loads or
\* the .get on its result raises) or "servers"; importable: the mcp packages import.
load_mcp_servers(mcp_json, importable) ==
    IF mcp_json.kind \in {"unset", "empty"} THEN <<>>
    ELSE IF ~importable THEN <<>>
    ELSE IF mcp_json.kind = "malformed" THEN <<>>
    ELSE ServerClients(mcp_json.servers)

\* ----------------------------------------------------------------- inputs

\* Values of STRANDS_PROMPT and of the CLI prompt arguments: every combination
\* of short values for the runs of main alone; for the whole program, no
\* argument and the variable unset or set.
PromptEnvValues == {None} \cup {Some(p) : p \in StringsUpTo({" ", "x"}, MaxPromptLen)}
ArgWords == {<<>>, <<" ">>, <<"x">>}
ArgvValues == UNION {[1..n -> ArgWords] : n \in 0..MaxArgs}
RunPromptEnvValues == {None, Some(<<" ", "x">>)}
RunArgvValues == {<<>>}

\* Values of STRANDS_TOOLS in the whole-program specification.
ToolsEnvValues == {None, Some(<<":", "a">>)}

\* Values of STRANDS_LOAD_MCP_SERVERS.
LoadMcpEnvValues ==
    {None, Some(<<>>), Some(<<"t","r","u","e">>), Some(<<"T","r","u","e">>),
     Some(<<"f","a","l","s","e">>)}

\* Values of MCP_SERVERS in the whole-program specification.
RunMcpValues ==
    {[kind |-> "unset", servers |-> <<>>],
     [kind |-> "malformed", servers |-> <<>>],
     [kind |-> "servers", servers |-> <<>>],
     [kind |-> "servers", servers |->
        <<[name |-> "s1", cfg |-> [object |-> TRUE, disabled |-> "true",
                                   command |-> TRUE, url |-> None]]>>],
     [kind |-> "servers", servers |->
        <<[name |-> "s1", cfg |-> [object |-> FALSE, disabled |-> "absent",
                                   command |-> FALSE, url |-> None]],
          [name |-> "s2", cfg |-> [object |-> TRUE, disabled |-> "absent",
                                   command |-> FALSE, url |-> Some(<<"/","s","s","e">>)]]>>]}

\* Values of PYTEST_CURRENT_TEST, SESSION_ID, GITHUB_RUN_ID, STRANDS_KNOWLEDGE_BASE_ID.
MarkerValues == {None, Some(<<>>), Some(<<"t">>)}
SessionEnvValues == {None, Some(<<>>), Some(<<"s">>)}
RunIdValues == {None, Some(<<"4">>)}
KbEnvValues == {None, Some(<<"k">>)}

\* Values of GITHUB_REPOSITORY.
RepoValues == {None} \cup {Some(r) : r \in StringsUpTo({"o", "/"}, MaxRepoLen)}

\* The github_tools module as the interpreter finds it: importable or not, and
\* lacking at most MaxMissing of the attributes.
GithubWorlds ==
    {[importable |-> i, missing |-> m] :
        i \in BOOLEAN,
        m \in {x \in SUBSET {GithubToolNames[k] : k \in 1..Len(GithubToolNames)} :
                  Cardinality(x) <= MaxMissing}}

\* The three auxiliary tool modules as the interpreter finds them.
AdditionalWorlds ==
    [{AdditionalToolNames[k] : k \in 1..Len(AdditionalToolNames)}
        -> {"ok", "ImportError", "AttributeError"}]

\* The bundles in the whole-program specification: complete, without the
\* module, and with a module that lacks its tool.
RunGithubWorlds ==
    {[importable |-> TRUE, missing |-> {}],
     [importable |-> FALSE, missing |-> {}],
     [importable |-> TRUE, missing |-> {"get_issue"}]}

RunAdditionalWorlds ==
    {[n \in {AdditionalToolNames[k] : k \in 1..Len(AdditionalToolNames)} |-> "ok"],
     [n \in {AdditionalToolNames[k] : k \in 1..Len(AdditionalToolNames)} |->
        IF n = "notebook" THEN "ImportError" ELSE "ok"],
     [n \in {AdditionalToolNames[k] : k \in 1..Len(AdditionalToolNames)} |->
        IF n = "notebook" THEN "AttributeError" ELSE "ok"]}

\* ------------------------------------------------------------------- main

gh_ == <<"g", "h", "-">>
unknown == <<"u","n","k","n","o","w","n">>
local == <<"l","o","c","a","l">>

default_tools ==
    strands_tools \o <<":">> \o shell \o <<",">> \o retrieve \o <<",">> \o use_agent
    \o <<";">> \o strands_action \o <<":">> \o use_github \o <<",">> \o system_prompt
    \o <<",">> \o store_in_kb \o <<",">> \o create_subagent

NoAgent == [constructed |-> FALSE]
NoSession == [constructed |-> FALSE]
NoResult == <<>>

Init ==
    /\ pc = "main"
    /\ inputs = [step |-> "start"]
    /\ prompt = None
    /\ tools = <<>>
    /\ has_mcp_servers = FALSE
    /\ mcp_constructed = 0
    /\ session_id = None
    /\ session_manager = NoSession
    /\ agent = NoAgent
    /\ kb_id = None
    /\ result = NoResult
    /\ summary = <<>>
    /\ stdout = {}
    /\ trace = <<>>
    /\ raised = "none"
    /\ exits = <<>>
    /\ arg = <<>>
    /\ ret = <<>>

\* main with `prompt = prompt.strip()` before the call.
MainPromptStripped(env_prompt, argv) ==
    LET chosen == IF Truthy(env_prompt) THEN env_prompt
                  ELSE IF argv # <<>> THEN Some(Join(argv, <<" ">>))
                  ELSE None
    IN  IF chosen = None THEN None
        ELSE IF Strip(chosen[1]) = <<>> THEN None
        ELSE Some(Strip(chosen[1]))

\* main without the `if not prompt.strip()` check.
MainPromptUnchecked(env_prompt, argv) ==
    IF Truthy(env_prompt) THEN env_prompt
    ELSE IF argv # <<>> THEN Some(Join(argv, <<" ">>))
    ELSE None

\* The body of main's try block up to the call of run_agent: the prompt handed
\* to run_agent as Some(prompt), or None when parser.error ended the process.
MainPrompt(env_prompt, argv) ==
    LET chosen == IF Truthy(env_prompt) THEN env_prompt
                  ELSE IF argv # <<>> THEN Some(Join(argv, <<" ">>))
                  ELSE None
    IN  IF chosen = None THEN None
        ELSE IF Strip(chosen[1]) = <<>> THEN None
        ELSE chosen

\* main(): parse the arguments, choose the prompt, and either end in
\* parser.error (usage on stderr, sys.exit(2), re-raised by `except SystemExit`)
\* or call run_agent.
MainStep(EnvValues, Argvs) ==
    /\ pc = "main"
    /\ \E env_prompt \in EnvValues, argv \in Argvs :
         LET p == MainPrompt(env_prompt, argv)
         IN  /\ inputs' = [step |-> "main", STRANDS_PROMPT |-> env_prompt, argv |-> argv]
             /\ IF p = None
                THEN /\ pc' = "terminated"
                     /\ stdout' = stdout \cup {"usage"}
                     /\ exits' = Append(exits, [call |-> "sys.exit", code |-> 2])
                     /\ UNCHANGED <<prompt, trace>>
                ELSE /\ pc' = "setup_otel"
                     /\ prompt' = p
                     /\ trace' = Append(trace, "run_agent")
                     /\ UNCHANGED <<stdout, exits>>
    /\ UNCHANGED <<tools, has_mcp_servers, mcp_constructed, session_id, session_manager,
                   agent, kb_id, result, summary, raised, arg, ret>>

Main == MainStep(RunPromptEnvValues, RunArgvValues)

\* main() on every combination of short prompt sources, up to the call of run_agent.
MainAlone == MainStep(PromptEnvValues, ArgvValues)

\* -------------------------------------------------------------- run_agent

\* A call inside `try: ... except Exception as e: print(...)`: the failure is
\* printed and the statement after the try block runs.
Caught(step, fails, next) ==
    [pc |-> next, raised |-> "none",
     log |-> IF fails THEN {<<step, "failed">>} ELSE {}]

\* A call directly in run_agent's try block: its exception reaches the handler
\* at the end of run_agent.
Uncaught(step, fails, next) ==
    IF fails THEN [pc |-> "except", raised |-> step, log |-> {}]
    ELSE [pc |-> next, raised |-> "none", log |-> {}]

\* setup_otel(): the exporter is set up when an endpoint is configured, by the
\* Langfuse variables or by OTEL_EXPORTER_OTLP_ENDPOINT itself.
OtelConfigured(langfuse_host, public_key, secret_key, endpoint) ==
    (langfuse_host /\ public_key /\ secret_key) \/ endpoint

SetupOtelOutcome(fails) == Caught("setup_otlp_exporter", fails, "load_tools")

SetupOtel ==
    /\ pc = "setup_otel"
    /\ \E langfuse_host, public_key, secret_key, endpoint, fails \in BOOLEAN :
         LET configured == OtelConfigured(langfuse_host, public_key, secret_key, endpoint)
             o == SetupOtelOutcome(fails)
         IN  /\ inputs' = [step |-> "setup_otel", configured |-> configured,
                           fails |-> configured /\ fails]
             /\ IF configured
                THEN /\ stdout' = stdout \cup o.log
                     /\ raised' = o.raised
                     /\ pc' = o.pc
                ELSE /\ pc' = "load_tools"
                     /\ UNCHANGED <<stdout, raised>>
    /\ UNCHANGED <<prompt, tools, has_mcp_servers, mcp_constructed, session_id,
                   session_manager, agent, kb_id, result, summary, trace, exits, arg, ret>>

\* tools = load_tools(os.getenv("STRANDS_TOOLS", default_tools))
LoadTools ==
    /\ pc = "load_tools"
    /\ \E env_tools \in ToolsEnvValues :
         LET r == load_tools(Getenv(env_tools, default_tools))
             o == Uncaught("load_tools", r.exc # "none", "load_github_tools")
         IN  /\ inputs' = [step |-> "load_tools", STRANDS_TOOLS |-> env_tools]
             /\ pc' = o.pc
             /\ raised' = o.raised
             /\ tools' = IF r.exc = "none" THEN r.tools ELSE tools
    /\ trace' = Append(trace, "load_tools")
    /\ UNCHANGED <<prompt, has_mcp_servers, mcp_constructed, session_id, session_manager,
                   agent, kb_id, result, summary, stdout, exits, arg, ret>>

\* tools.extend(load_github_tools())
LoadGithubTools ==
    /\ pc = "load_github_tools"
    /\ \E world \in RunGithubWorlds :
         LET r == load_github_tools(world)
             o == Uncaught("load_github_tools", r.exc # "none", "load_additional_tools")
         IN  /\ inputs' = [step |-> "load_github_tools", world |-> world]
             /\ pc' = o.pc
             /\ raised' = o.raised
             /\ tools' = IF r.exc = "none" THEN tools \o r.tools ELSE tools
    /\ trace' = Append(trace, "load_github_tools")
    /\ UNCHANGED <<prompt, has_mcp_servers, mcp_constructed, session_id, session_manager,
                   agent, kb_id, result, summary, stdout, exits, arg, ret>>

\* tools.extend(load_additional_tools())
LoadAdditionalTools ==
    /\ pc = "load_additional_tools"
    /\ \E world \in RunAdditionalWorlds :
         LET r == load_additional_tools(world)
             o == Uncaught("load_additional_tools", r.exc # "none", "load_mcp_servers")
         IN  /\ inputs' = [step |-> "load_additional_tools", world |-> world]
             /\ pc' = o.pc
             /\ raised' = o.raised
             /\ tools' = IF r.exc = "none" THEN tools \o r.tools ELSE tools
    /\ trace' = Append(trace, "load_additional_tools")
    /\ UNCHANGED <<prompt, has_mcp_servers, mcp_constructed, session_id, session_manager,
                   agent, kb_id, result, summary, stdout, exits, arg, ret>>

\* str.lower() on the letters the flag values use.
LowerChar(c) ==
    CASE c = "T" -> "t" [] c = "R" -> "r" [] c = "U" -> "u" [] c = "E" -> "e" [] OTHER -> c
Lower(s) == [i \in 1..Len(s) |-> LowerChar(s[i])]

\* os.getenv("STRANDS_LOAD_MCP_SERVERS", "true").lower() == "true"
McpEnabled(flag) == Lower(Getenv(flag, <<"t","r","u","e">>)) = <<"t","r","u","e">>

\* The MCP block of run_agent: the clients are loaded when the flag allows it,
\* and a non-empty list sets has_mcp_servers and extends tools.
LoadMcpServers ==
    /\ pc = "load_mcp_servers"
    /\ \E flag \in LoadMcpEnvValues, mcp_json \in RunMcpValues, importable \in BOOLEAN :
         LET enabled == McpEnabled(flag)
             clients == IF enabled THEN load_mcp_servers(mcp_json, importable) ELSE <<>>
         IN  /\ inputs' = [step |-> "load_mcp_servers", enabled |-> enabled]
             /\ mcp_constructed' = mcp_constructed + Len(clients)
             /\ has_mcp_servers' = IF clients # <<>> THEN TRUE ELSE has_mcp_servers
             /\ tools' = tools \o clients
             /\ trace' = IF enabled THEN Append(trace, "load_mcp_servers") ELSE trace
    /\ pc' = "create_model"
    /\ UNCHANGED <<prompt, session_id, session_manager, agent, kb_id, result, summary,
                   stdout, raised, exits, arg, ret>>

\* model = create_model(provider=os.getenv("STRANDS_PROVIDER", "bedrock"))
CreateModel ==
    /\ pc = "create_model"
    /\ \E fails \in BOOLEAN :
         LET o == Uncaught("create_model", fails, "session")
         IN  /\ inputs' = [step |-> "create_model"]
             /\ pc' = o.pc
             /\ raised' = o.raised
    /\ UNCHANGED <<prompt, tools, has_mcp_servers, mcp_constructed, session_id,
                   session_manager, agent, kb_id, result, summary, stdout, trace, exits,
                   arg, ret>>

\* The session id with the repository name used as it is.
SessionIdNoReplace(env_session, env_repository, env_run_id) ==
    IF Truthy(env_session) THEN env_session[1]
    ELSE gh_ \o Getenv(env_repository, unknown) \o <<"-">> \o Getenv(env_run_id, local)

\* os.getenv("SESSION_ID") or f"gh-{repository.replace('/', '-')}-{run_id}"
SessionId(env_session, env_repository, env_run_id) ==
    IF Truthy(env_session) THEN env_session[1]
    ELSE gh_ \o Replace(Getenv(env_repository, unknown), "/", "-") \o <<"-">>
             \o Getenv(env_run_id, local)

\* The session block: session_id, and the S3 session manager when
\* S3_SESSION_BUCKET is set.
Session ==
    /\ pc = "session"
    /\ \E env_session \in SessionEnvValues, env_repository \in RepoValues,
          env_run_id \in RunIdValues, bucket, fails \in BOOLEAN :
         LET sid == SessionId(env_session, env_repository, env_run_id)
             o == Uncaught("S3SessionManager", bucket /\ fails, "create_agent")
         IN  /\ inputs' = [step |-> "session", SESSION_ID |-> env_session,
                           GITHUB_REPOSITORY |-> env_repository,
                           GITHUB_RUN_ID |-> env_run_id]
             /\ session_id' = Some(sid)
             /\ session_manager' = IF bucket /\ ~fails
                                   THEN [constructed |-> TRUE, session_id |-> sid]
                                   ELSE session_manager
             /\ pc' = o.pc
             /\ raised' = o.raised
    /\ UNCHANGED <<prompt, tools, has_mcp_servers, mcp_constructed, agent, kb_id, result,
                   summary, stdout, trace, exits, arg, ret>>

\* agent = Agent(...): the tool registry (agent.tool_names) is the SDK's; of it,
\* only whether it holds "retrieve" and "store_in_kb" is read.
CreateAgent ==
    /\ pc = "create_agent"
    /\ \E fails \in BOOLEAN, tool_names \in SUBSET {"retrieve", "store_in_kb"} :
         LET o == Uncaught("Agent", fails, "kb_retrieve")
         IN  /\ inputs' = [step |-> "create_agent"]
             /\ pc' = o.pc
             /\ raised' = o.raised
             /\ agent' = IF fails THEN agent
                         ELSE [constructed |-> TRUE, tool_names |-> tool_names,
                               session_manager |-> session_manager,
                               trace_session_id |-> session_id[1]]
             /\ trace' = IF fails THEN trace ELSE Append(trace, "Agent")
    /\ UNCHANGED <<prompt, tools, has_mcp_servers, mcp_constructed, session_id,
                   session_manager, kb_id, result, summary, stdout, exits, arg, ret>>

KbRetrieveOutcome(fails) == Caught("retrieve", fails, "invoke")

\* kb_id = os.getenv("STRANDS_KNOWLEDGE_BASE_ID") and the retrieval before the run.
KbRetrieve ==
    /\ pc = "kb_retrieve"
    /\ \E env_kb \in KbEnvValues, fails \in BOOLEAN :
         LET attempted == Truthy(env_kb) /\ "retrieve" \in agent.tool_names
             o == KbRetrieveOutcome(fails)
         IN  /\ inputs' = [step |-> "kb_retrieve", fails |-> attempted /\ fails]
             /\ kb_id' = env_kb
             /\ IF attempted
                THEN /\ trace' = Append(trace, "retrieve")
                     /\ stdout' = stdout \cup o.log
                     /\ pc' = o.pc
                     /\ raised' = o.raised
                ELSE /\ pc' = "invoke"
                     /\ UNCHANGED <<trace, stdout, raised>>
    /\ UNCHANGED <<prompt, tools, has_mcp_servers, mcp_constructed, session_id,
                   session_manager, agent, result, summary, exits, arg, ret>>

\* The invocation inside a try block of its own.
InvokeOutcomeCaught(fails) == Caught("agent", fails, "summary")

InvokeOutcome(fails) == Uncaught("agent", fails, "summary")

\* result = agent(prompt)
Invoke ==
    /\ pc = "invoke"
    /\ \E fails \in BOOLEAN :
         LET o == InvokeOutcome(fails)
         IN  /\ inputs' = [step |-> "invoke", fails |-> fails]
             /\ pc' = o.pc
             /\ raised' = o.raised
             /\ result' = IF fails THEN result ELSE <<"result">>
    /\ trace' = Append(trace, "agent")
    /\ UNCHANGED <<prompt, tools, has_mcp_servers, mcp_constructed, session_id,
                   session_manager, agent, kb_id, summary, stdout, exits, arg, ret>>

WriteSummaryOutcome(fails) == Caught("summary", fails, "kb_store")

\* The section run_agent appends to the step summary.
SummarySection ==
    [prompt |-> prompt[1], result |-> result, session |-> session_id[1],
     kb |-> IF Truthy(kb_id) THEN kb_id ELSE None]

\* The GITHUB_STEP_SUMMARY block.
WriteSummary ==
    /\ pc = "summary"
    /\ \E summary_file, fails \in BOOLEAN :
         LET o == WriteSummaryOutcome(fails)
         IN  /\ inputs' = [step |-> "summary", fails |-> summary_file /\ fails]
             /\ IF summary_file
                THEN /\ trace' = Append(trace, "summary")
                     /\ summary' = IF fails THEN summary ELSE Append(summary, SummarySection)
                     /\ stdout' = stdout \cup o.log
                     /\ pc' = o.pc
                     /\ raised' = o.raised
                ELSE /\ pc' = "kb_store"
                     /\ UNCHANGED <<trace, summary, stdout, raised>>
    /\ UNCHANGED <<prompt, tools, has_mcp_servers, mcp_constructed, session_id,
                   session_manager, agent, kb_id, result, exits, arg, ret>>

\* The storage call outside any try block.
KbStoreOutcomeUncaught(fails) == Uncaught("store_in_kb", fails, "exit_success")

KbStoreOutcome(fails) == Caught("store_in_kb", fails, "exit_success")

\* The knowledge-base storage after the run.
KbStore ==
    /\ pc = "kb_store"
    /\ \E fails \in BOOLEAN :
         LET attempted == Truthy(kb_id) /\ "store_in_kb" \in agent.tool_names
             o == KbStoreOutcome(fails)
         IN  /\ inputs' = [step |-> "kb_store", fails |-> attempted /\ fails]
             /\ IF attempted
                THEN /\ trace' = Append(trace, "store_in_kb")
                     /\ stdout' = stdout \cup o.log
                     /\ pc' = o.pc
                     /\ raised' = o.raised
                ELSE /\ pc' = "exit_success"
                     /\ UNCHANGED <<trace, stdout, raised>>
    /\ UNCHANGED <<prompt, tools, has_mcp_servers, mcp_constructed, session_id,
                   session_manager, agent, kb_id, result, summary, exits, arg, ret>>

\* The exit at the end of the try block.
SuccessExit(mcp, marker) ==
    IF mcp /\ ~Truthy(marker) THEN [call |-> "os._exit", code |-> 0]
    ELSE [call |-> "sys.exit", code |-> 0]

\* The handler always leaving through sys.exit.
FailureExitGraceful(mcp, marker) == [call |-> "sys.exit", code |-> 1]

\* The handler leaving with the success code.
FailureExitZero(mcp, marker) ==
    IF mcp /\ ~Truthy(marker) THEN [call |-> "os._exit", code |-> 0]
    ELSE [call |-> "sys.exit", code |-> 0]

\* The exit at the end of the handler.
FailureExit(mcp, marker) ==
    IF mcp /\ ~Truthy(marker) THEN [call |-> "os._exit", code |-> 1]
    ELSE [call |-> "sys.exit", code |-> 1]

\* The end of the try block.  sys.exit raises SystemExit, which is no Exception:
\* the handler below does not catch it and main re-raises it.
ExitSuccess ==
    /\ pc = "exit_success"
    /\ \E marker \in MarkerValues :
         /\ inputs' = [step |-> "exit", PYTEST_CURRENT_TEST |-> marker]
         /\ exits' = Append(exits, SuccessExit(has_mcp_servers, marker))
    /\ stdout' = stdout \cup {<<"agent", "ok">>}
    /\ trace' = Append(trace, "exit")
    /\ pc' = "terminated"
    /\ UNCHANGED <<prompt, tools, has_mcp_servers, mcp_constructed, session_id,
                   session_manager, agent, kb_id, result, summary, raised, arg, ret>>

\* except Exception as e:
ExceptHandler ==
    /\ pc = "except"
    /\ \E marker \in MarkerValues :
         /\ inputs' = [step |-> "exit", PYTEST_CURRENT_TEST |-> marker]
         /\ exits' = Append(exits, FailureExit(has_mcp_servers, marker))
    /\ stdout' = stdout \cup {<<"agent", "failed">>}
    /\ trace' = Append(trace, "exit")
    /\ pc' = "terminated"
    /\ UNCHANGED <<prompt, tools, has_mcp_servers, mcp_constructed, session_id,
                   session_manager, agent, kb_id, result, summary, raised, arg, ret>>

Next ==
    \/ Main
    \/ SetupOtel
    \/ LoadTools
    \/ LoadGithubTools
    \/ LoadAdditionalTools
    \/ LoadMcpServers
    \/ CreateModel
    \/ Session
    \/ CreateAgent
    \/ KbRetrieve
    \/ Invoke
    \/ WriteSummary
    \/ KbStore
    \/ ExitSuccess
    \/ ExceptHandler

Spec == Init /\ [][Next]_vars

SpecMain == Init /\ [][MainAlone]_vars

\* ------------------------------------------------- the loaders on their own

Idle ==
    /\ inputs = [step |-> "start"]
    /\ prompt = None
    /\ tools = <<>>
    /\ has_mcp_servers = FALSE
    /\ mcp_constructed = 0
    /\ session_id = None
    /\ session_manager = NoSession
    /\ agent = NoAgent
    /\ kb_id = None
    /\ result = NoResult
    /\ summary = <<>>
    /\ stdout = {}
    /\ trace = <<>>
    /\ raised = "none"
    /\ exits = <<>>

UnchangedRun ==
    UNCHANGED <<inputs, prompt, tools, has_mcp_servers, mcp_constructed, session_id,
                session_manager, agent, kb_id, result, summary, stdout, trace, raised,
                exits>>

\* load_tools on every configuration string of at most MaxLen characters.
ConfigChars == {"a", "b", ":", ";", ",", " "}

InitTools ==
    /\ Idle
    /\ pc = "call"
    /\ arg \in StringsUpTo(ConfigChars, MaxLen)
    /\ ret = <<>>

CallLoadTools ==
    /\ pc = "call"
    /\ ret' = load_tools(arg)
    /\ pc' = "returned"
    /\ UNCHANGED arg
    /\ UnchangedRun

SpecTools == InitTools /\ [][CallLoadTools]_vars

\* The two bundle loaders on every state of their modules.
InitBundles ==
    /\ Idle
    /\ pc = "call"
    /\ arg \in {[bundle |-> "github_tools", world |-> w] : w \in GithubWorlds}
              \cup {[bundle |-> "additional", world |-> w] : w \in AdditionalWorlds}
    /\ ret = <<>>

CallLoadGithubTools ==
    /\ pc = "call"
    /\ arg.bundle = "github_tools"
    /\ ret' = load_github_tools(arg.world)
    /\ pc' = "returned"
    /\ UNCHANGED arg
    /\ UnchangedRun

CallLoadAdditionalTools ==
    /\ pc = "call"
    /\ arg.bundle = "additional"
    /\ ret' = load_additional_tools(arg.world)
    /\ pc' = "returned"
    /\ UNCHANGED arg
    /\ UnchangedRun

NextBundles == CallLoadGithubTools \/ CallLoadAdditionalTools

SpecBundles == InitBundles /\ [][NextBundles]_vars

\* load_mcp_servers on every descriptor, alone and followed by a second server.
Descriptors ==
    {[object |-> FALSE, disabled |-> "absent", command |-> FALSE, url |-> None]}
    \cup
    {[object |-> TRUE, disabled |-> d, command |-> c, url |-> u] :
        d \in {"absent", "true", "false"}, c \in BOOLEAN,
        u \in {None} \cup {Some(x) : x \in StringsUpTo({"/", "s", "e"}, MaxUrlLen)}}

SecondDescriptors ==
    {[object |-> TRUE, disabled |-> "absent", command |-> TRUE, url |-> None],
     [object |-> TRUE, disabled |-> "true", command |-> FALSE, url |-> Some(<<"/","s","s","e">>)],
     [object |-> TRUE, disabled |-> "false", command |-> FALSE, url |-> Some(<<"/","s">>)]}

McpJsons ==
    {[kind |-> k, servers |-> <<>>] : k \in {"unset", "empty", "malformed", "servers"}}
    \cup {[kind |-> "servers", servers |-> <<[name |-> "s1", cfg |-> c]>>] : c \in Descriptors}
    \cup {[kind |-> "servers",
           servers |-> <<[name |-> "s1", cfg |-> c], [name |-> "s2", cfg |-> d]>>] :
            c \in Descriptors, d \in SecondDescriptors}

InitMcp ==
    /\ Idle
    /\ pc = "call"
    /\ arg \in {[mcp_json |-> j, importable |-> i] : j \in McpJsons, i \in BOOLEAN}
    /\ ret = <<>>

CallLoadMcpServers ==
    /\ pc = "call"
    /\ ret' = load_mcp_servers(arg.mcp_json, arg.importable)
    /\ pc' = "returned"
    /\ UNCHANGED arg
    /\ UnchangedRun

SpecMcp == InitMcp /\ [][CallLoadMcpServers]_vars

\* ------------------------------------------------------------- properties

RunAgentEntered == trace # <<>>
Terminated == pc = "terminated"

\* The test-mode marker counts as present when it carries a value, which is
\* how pytest sets it.
MarkerPresent(marker) == marker # None /\ marker[1] # <<>>

\* C1: a run of run_agent ends through os._exit exactly when an MCP client was
\* constructed and the test-mode marker is absent, and through sys.exit
\* otherwise, on the success path and on the failure path alike.
C1_ExitPath ==
    (Terminated /\ RunAgentEntered) =>
        /\ exits # <<>>
        /\ exits[Len(exits)].call =
              IF mcp_constructed > 0 /\ ~MarkerPresent(inputs.PYTEST_CURRENT_TEST)
              THEN "os._exit" ELSE "sys.exit"

\* A failed run with an MCP client and no marker has left through os._exit.
C1_Witness ==
    /\ Terminated
    /\ raised # "none"
    /\ mcp_constructed > 0
    /\ inputs.PYTEST_CURRENT_TEST = None
    /\ exits = <<[call |-> "os._exit", code |-> 1]>>

\* The entries of a tool configuration, by the grammar
\* group (";" group)*, group = package ":" names, names = name ("," name)*.
RECURSIVE GroupEntries(_, _)
GroupEntries(package, names) ==
    IF names = <<>> THEN <<>>
    ELSE (IF Strip(Head(names)) = <<>> THEN <<>>
          ELSE <<[module |-> package, attr |-> Strip(Head(names))]>>)
         \o GroupEntries(package, Tail(names))

RECURSIVE ConfigEntries(_)
ConfigEntries(groups) ==
    IF groups = <<>> THEN <<>>
    ELSE LET g == Head(groups)
             colon == FirstIdx(g, ":")
         IN  (IF colon = 0 THEN <<>>
              ELSE GroupEntries(Strip(SubSeq(g, 1, colon - 1)),
                                Split(SubSeq(g, colon + 1, Len(g)), ",")))
             \o ConfigEntries(Tail(groups))

Resolvable(entry) ==
    entry.module \in Installed /\ entry.attr \in Attributes(entry.module)

\* C2: load_tools returns normally on every configuration string, and returns
\* exactly the resolvable entries, in configuration order, duplicates kept.
C2_SkipsOnlyFailedEntries ==
    pc = "returned" =>
        /\ ret.exc = "none"
        /\ ret.tools = SelectSeq(ConfigEntries(Split(arg, ";")), Resolvable)

\* `"/sse" in url`, character by character.
HasSse(url) ==
    \E i \in 1..Len(url) :
        /\ i + 3 <= Len(url)
        /\ url[i] = "/" /\ url[i + 1] = "s" /\ url[i + 2] = "s" /\ url[i + 3] = "e"

ClientsOf(name) == {i \in 1..Len(ret) : ret[i].prefix = name}

\* C3: of the descriptors load_mcp_servers processes, a disabled one produces no
\* client; an enabled one with a command produces one client on the stdio
\* transport; an enabled one with a url (and no command) produces one client
\* on the SSE transport when the url contains "/sse" and on streaming HTTP
\* otherwise.
C3_TransportSelection ==
    (pc = "returned" /\ arg.mcp_json.kind = "servers" /\ arg.importable) =>
        \A k \in 1..Len(arg.mcp_json.servers) :
            LET server == arg.mcp_json.servers[k]
                cfg == server.cfg
                mine == ClientsOf(server.name)
            IN  cfg.object =>
                  /\ cfg.disabled = "true" => mine = {}
                  /\ (cfg.disabled # "true" /\ cfg.command) =>
                        /\ Cardinality(mine) = 1
                        /\ \A i \in mine : Transport(ret[i]) = "stdio_client"
                  /\ (cfg.disabled # "true" /\ ~cfg.command /\ cfg.url # None) =>
                        /\ Cardinality(mine) = 1
                        /\ \A i \in mine :
                              Transport(ret[i]) = IF HasSse(cfg.url[1]) THEN "sse_client"
                                                  ELSE "streamablehttp_client"

\* Two servers loaded: the first by url on SSE, the second by command on stdio.
C3_Witness ==
    /\ pc = "returned"
    /\ Len(ret) = 2
    /\ arg.mcp_json.servers[1].cfg.url = Some(<<"/", "s", "s", "e">>)
    /\ Transport(ret[1]) = "sse_client"
    /\ Transport(ret[2]) = "stdio_client"

AllSpace(s) == \A i \in 1..Len(s) : IsSpace(s[i])

\* C4: when STRANDS_PROMPT has a value and CLI prompt arguments are supplied as
\* well, the prompt main hands to run_agent is the value of the variable,
\* unaltered, and main hands one over unless that value is blank.
C4_EnvPromptVerbatim ==
    (inputs.step = "main" /\ Truthy(inputs.STRANDS_PROMPT) /\ inputs.argv # <<>>) =>
        /\ RunAgentEntered => prompt = inputs.STRANDS_PROMPT
        /\ ~RunAgentEntered => AllSpace(inputs.STRANDS_PROMPT[1])

\* STRANDS_PROMPT = " x" with the CLI argument "x": run_agent is entered.
C4_Witness ==
    /\ inputs.step = "main"
    /\ inputs.STRANDS_PROMPT = Some(<<" ", "x">>)
    /\ inputs.argv = << <<"x">> >>
    /\ pc = "setup_otel"

\* The prompt the two sources supply: the variable's value, else the arguments
\* joined by spaces.
SuppliedPrompt(in) ==
    IF Truthy(in.STRANDS_PROMPT) THEN in.STRANDS_PROMPT[1] ELSE Join(in.argv, <<" ">>)

\* C5: when neither source supplies a prompt, or the prompt they supply is
\* blank, the process ends in a usage error with a non-zero exit code and
\* run_agent is not entered: no tool is loaded and no agent constructed.
C5_UsageError ==
    (inputs.step = "main" /\ AllSpace(SuppliedPrompt(inputs))) =>
        /\ Terminated
        /\ "usage" \in stdout
        /\ Len(exits) = 1 /\ exits[1].code # 0
        /\ ~RunAgentEntered
        /\ tools = <<>> /\ agent = NoAgent

\* Blank CLI arguments and no variable: the usage error.
C5_Witness ==
    /\ inputs.step = "main"
    /\ inputs.STRANDS_PROMPT = None
    /\ inputs.argv = << <<" ">>, <<>> >>
    /\ Terminated
    /\ exits = <<[call |-> "sys.exit", code |-> 2]>>

\* The default session id, by the rule gh-<repository, "/" as "-">-<run id>.
ExpectedSessionId(in) ==
    IF in.SESSION_ID # None /\ in.SESSION_ID[1] # <<>> THEN in.SESSION_ID[1]
    ELSE LET repository == IF in.GITHUB_REPOSITORY = None THEN unknown
                           ELSE in.GITHUB_REPOSITORY[1]
             run_id == IF in.GITHUB_RUN_ID = None THEN local ELSE in.GITHUB_RUN_ID[1]
         IN  <<"g", "h", "-">> \o Join(Split(repository, "/"), <<"-">>) \o <<"-">> \o run_id

\* C6: the session id is SESSION_ID when that has a value, and otherwise "gh-",
\* the repository with every "/" replaced by "-", "-" and the run id, with
\* "unknown" and "local" for an absent repository or run id; the S3 session
\* manager, the trace attributes and the run summary all carry that id.
C6_SessionId ==
    /\ inputs.step = "session" => session_id = Some(ExpectedSessionId(inputs))
    /\ session_manager.constructed => session_manager.session_id = session_id[1]
    /\ agent.constructed => agent.trace_session_id = session_id[1]
    /\ \A i \in 1..Len(summary) : summary[i].session = session_id[1]

\* Repository "o/o" and run id "4" give "gh-o-o-4", in the S3 session manager,
\* the trace attributes and the summary.
C6_Witness ==
    /\ session_id = Some(<<"g", "h", "-", "o", "-", "o", "-", "4">>)
    /\ session_manager.constructed
    /\ agent.constructed
    /\ summary # <<>>

Returned(bundle, name) ==
    \E i \in 1..Len(ret.tools) : ret.tools[i] = [bundle |-> bundle, tool |-> name]

\* C7: in both fixed bundles a tool that cannot be resolved is the only one
\* omitted: the loader returns normally, with every tool of the bundle that
\* can be resolved.
C7_BundleFailuresIndependent ==
    /\ (pc = "returned" /\ arg.bundle = "github_tools") =>
          /\ ret.exc = "none"
          /\ \A k \in 1..Len(GithubToolNames) :
                (arg.world.importable /\ GithubToolNames[k] \notin arg.world.missing)
                    => Returned("github_tools", GithubToolNames[k])
    /\ (pc = "returned" /\ arg.bundle = "additional") =>
          /\ ret.exc = "none"
          /\ \A k \in 1..Len(AdditionalToolNames) :
                arg.world[AdditionalToolNames[k]] = "ok"
                    => Returned("additional", AdditionalToolNames[k])

\* The lifecycle state a call belongs to: 1 tools-loaded, 2 agent-constructed,
\* 3 kb-retrieved, 4 executing, 5 summary-written, 6 kb-stored, 7 terminated.
Phase(call) ==
    CASE call = "run_agent" -> 0
      [] call \in {"load_tools", "load_github_tools", "load_additional_tools",
                   "load_mcp_servers"} -> 1
      [] call = "Agent" -> 2
      [] call = "retrieve" -> 3
      [] call = "agent" -> 4
      [] call = "summary" -> 5
      [] call = "store_in_kb" -> 6
      [] call = "exit" -> 7

Called(call) == \E i \in 1..Len(trace) : trace[i] = call

\* C8: the calls of a run follow the lifecycle order: all loading before the
\* agent is constructed, retrieval before the invocation, and the summary and
\* then the storage only after the invocation has returned without raising;
\* nothing follows the exit.
C8_LifecycleOrder ==
    /\ \A i, j \in 1..Len(trace) :
          i < j => /\ Phase(trace[i]) <= Phase(trace[j])
                   /\ Phase(trace[i]) = Phase(trace[j]) => Phase(trace[i]) = 1
    /\ Called("Agent") =>
          /\ Called("load_tools") /\ Called("load_github_tools")
          /\ Called("load_additional_tools")
          /\ pc \notin {"load_tools", "load_github_tools", "load_additional_tools",
                        "load_mcp_servers"}
    /\ (Called("retrieve") \/ Called("agent")) => agent.constructed
    /\ (Called("summary") \/ Called("store_in_kb")) =>
          (result # NoResult /\ raised = "none")
    /\ Called("exit") <=> (Terminated /\ RunAgentEntered)

\* A run that made every call of the lifecycle.
C8_Witness ==
    trace = <<"run_agent", "load_tools", "load_github_tools", "load_additional_tools",
              "load_mcp_servers", "Agent", "retrieve", "agent", "summary",
              "store_in_kb", "exit">>

\* C9: a run of run_agent ends by exactly one exit call, with code 1 when an
\* exception reached the handler and code 0 otherwise, which is when the
\* invocation returned; no exit call is made before the end.
C9_ExitCode ==
    /\ (Terminated /\ RunAgentEntered) =>
          /\ Len(exits) = 1
          /\ exits[1].code = IF raised = "none" THEN 0 ELSE 1
          /\ raised = "none" <=> result # NoResult
    /\ ~Terminated => exits = <<>>

\* The invocation raised and the run ended with code 1.
C9_Witness ==
    /\ Terminated
    /\ raised = "agent"
    /\ exits = <<[call |-> "sys.exit", code |-> 1]>>

RecoverableSteps == {"setup_otlp_exporter", "retrieve", "summary", "store_in_kb"}

\* The statement after each recoverable step.
Following(step) ==
    CASE step = "setup_otel" -> "load_tools"
      [] step = "kb_retrieve" -> "invoke"
      [] step = "summary" -> "kb_store"
      [] step = "kb_store" -> "exit_success"

FailureLine(step) ==
    CASE step = "setup_otel" -> <<"setup_otlp_exporter", "failed">>
      [] step = "kb_retrieve" -> <<"retrieve", "failed">>
      [] step = "summary" -> <<"summary", "failed">>
      [] step = "kb_store" -> <<"store_in_kb", "failed">>

\* C10: a failure of the telemetry set-up, the retrieval, the summary write or
\* the storage is printed and does not reach the handler: the following
\* statement runs, and a run whose invocation returned ends with code 0.
C10_RecoverableFailures ==
    /\ raised \notin RecoverableSteps
    /\ (inputs.step \in {"setup_otel", "kb_retrieve", "summary", "kb_store"}
        /\ inputs.fails) =>
          /\ pc = Following(inputs.step)
          /\ FailureLine(inputs.step) \in stdout
    /\ (Terminated /\ result # NoResult) =>
          /\ raised = "none"
          /\ exits[Len(exits)].code = 0

\* All four recoverable steps failed and the run ended with code 0.
C10_Witness ==
    /\ Terminated
    /\ {FailureLine(s) : s \in {"setup_otel", "kb_retrieve", "summary", "kb_store"}}
          \subseteq stdout
    /\ exits = <<[call |-> "sys.exit", code |-> 0]>>

=============================================================================
